---- MODULE Spec2Model ----
(***************************************************************************)
(* socket.js: the client session (src/client/socket.js) and the server     *)
(* connection (src/server/socket.js), modelled as state machines.          *)
(*                                                                         *)
(* Every event handler of the library runs to completion on a single       *)
(* thread, so each handler is one action.  The handlers call each other    *)
(* and the application's callbacks synchronously; they are written as      *)
(* operators over a record holding the session's fields, and an action     *)
(* applies one of them to the current state.                               *)
(*                                                                         *)
(* Spec and SpecLive are the client session with any server; SpecServer    *)
(* is one server connection with any peer, read byte by byte; SpecLink is  *)
(* the client with the server connection that serves one of its            *)
(* WebSockets; SpecChunks is the server connection with a stream of frames *)
(* that arrives cut into chunks at any offsets; SpecEncoder is the         *)
(* server's frame encoder with texts of the lengths around its tiers;      *)
(* SpecLength64 is the server's decoder with frame heads whose length is   *)
(* written in 64 bits.                                                     *)
(***************************************************************************)
EXTENDS Integers, Sequences, FiniteSets, TLC

\* ------------------------------------------------------------------ bounds
MaxSockets  == 2      \* transports the client constructs (the first included)
MaxSends    == 2      \* messages the application passes to send
MaxIncoming == 1      \* envelopes the server delivers to the client
MaxFrames   == 2      \* frames the server's peer writes
MaxShortText == 130   \* the texts of every length up to this one are encoded

\* ------------------------------------------------------------- JavaScript
\* A primitive JavaScript value: its type, and its string or number.
JS(js, s, n) == [js |-> js, s |-> s, n |-> n]
Undefined  == JS("undefined", "", 0)
JSNull     == JS("null", "", 0)
JSNaN      == JS("nan", "", 0)
JSFunction == JS("function", "", 0)
Str(s)     == JS("string", s, 0)
Num(n)     == JS("number", "", n)

\* The objects the library builds and parses: the envelopes.  A property
\* that is absent reads as undefined.
Obj(type, messageType, message, reconnectData) ==
    [type |-> type, messageType |-> messageType, message |-> message,
     reconnectData |-> reconnectData]
ConnectEnvelope            == Obj(Str("connect"), Undefined, Undefined, Undefined)
ReconnectEnvelope(data)    == Obj(Str("reconnect"), Undefined, Undefined, data)
MessageEnvelope(type, msg) == Obj(Str("message"), type, msg, Undefined)
CloseEnvelope              == Obj(Str("close"), Undefined, Undefined, Undefined)

\* The characters of a JSON text, as bytes.
CharObj  == 1
CharNull == 6
CharNum  == 16
NumChars == 16..31
TypeNames == <<"connect", "reconnect", "message", "close">>
TypeCode(s) == CHOOSE i \in 1..4 : TypeNames[i] = s
Strings == <<"a", "b", "ctx-42", "toString", "__proto__">>
StrCode(s) == 6 + (CHOOSE i \in 1..Len(Strings) : Strings[i] = s)
StrChars == 7..(6 + Len(Strings))

\* JSON.stringify of a primitive.  undefined and functions have no JSON
\* text (the result is not a string: the empty sequence here); NaN is
\* written as null.
NotAString == <<>>
stringifyValue(x) ==
    CASE x.js = "null"   -> <<CharNull>>
      [] x.js = "nan"    -> <<CharNull>>
      [] x.js = "string" -> <<StrCode(x.s)>>
      [] x.js = "number" -> <<CharNum + x.n>>
      [] OTHER           -> NotAString

\* JSON.stringify of an envelope: the properties in the order they were
\* written; a property whose value has no JSON text is left out.
stringifyEnvelope(o) ==
    <<CharObj, 1 + TypeCode(o.type.s)>>
      \o (IF o.type.s = "message" THEN stringifyValue(o.messageType) ELSE <<>>)
      \o (IF o.type.s = "message" THEN stringifyValue(o.message) ELSE <<>>)
      \o (IF o.type.s = "reconnect" THEN stringifyValue(o.reconnectData) ELSE <<>>)

jsonConvertible(x) == stringifyValue(x) # NotAString

\* JSON.parse of a primitive's text.
parseValue(c) ==
    IF c = CharNull THEN JSNull
    ELSE IF c \in StrChars THEN Str(Strings[c - 6])
    ELSE Num(c - CharNum)
IsValueChar(c) == c = CharNull \/ c \in StrChars \/ c \in NumChars

\* JSON.parse: kind "object" with the envelope read back, kind "value" for
\* a text that is JSON but no object, kind "error" for a SyntaxError.
ParseResult(kind, obj, val) == [kind |-> kind, obj |-> obj, val |-> val]
NoObj == Obj(Undefined, Undefined, Undefined, Undefined)
parse(t) ==
    IF Len(t) = 1 /\ IsValueChar(t[1]) THEN ParseResult("value", NoObj, parseValue(t[1]))
    ELSE IF Len(t) = 1 /\ t[1] = CharObj THEN ParseResult("object", NoObj, Undefined)
    ELSE IF Len(t) < 2 \/ t[1] # CharObj \/ t[2] \notin 2..5 THEN ParseResult("error", NoObj, Undefined)
    ELSE LET type == TypeNames[t[2] - 1] IN
      CASE type \in {"connect", "close"} /\ Len(t) = 2 ->
             ParseResult("object", Obj(Str(type), Undefined, Undefined, Undefined), Undefined)
        [] type = "reconnect" /\ Len(t) = 2 ->
             ParseResult("object", ReconnectEnvelope(Undefined), Undefined)
        [] type = "reconnect" /\ Len(t) = 3 /\ IsValueChar(t[3]) ->
             ParseResult("object", ReconnectEnvelope(parseValue(t[3])), Undefined)
        [] type = "message" /\ Len(t) = 4 /\ t[3] \in StrChars /\ IsValueChar(t[4]) ->
             ParseResult("object", MessageEnvelope(parseValue(t[3]), parseValue(t[4])), Undefined)
        [] OTHER -> ParseResult("error", NoObj, Undefined)

\* ------------------------------------------------------------ the client
\* WebSocket.readyState
CONNECTING == 0
OPEN       == 1
CLOSING    == 2
CLOSED     == 3

\* A callback variable holds null or one of the application's functions; a
\* property of messageHandlers that was never set, or was deleted, reads
\* as undefined.
Functions == {"f"}
MsgTypes  == {"a"}

\* What the application's functions do when the library invokes them in
\* one handler run: the function invoked first (primary) and the close
\* callback each do nothing, call the session's send, or call the
\* session's close; returns is the value the reconnect callback returns.
Does == {"noop", "send", "close"}
ReconnectReturns == {Undefined, Str("ctx-42"), JSNaN, JSFunction}
Apps == [primary : Does, close : Does, returns : ReconnectReturns]

VARIABLES
    \* src/client/socket.js:39-46
    websocket,                \* index in sockets of the current WebSocket
    permanentlyClosed,
    temporarilyDisconnected,
    messageHandlers,          \* message type -> function or "undefined"
    disconnectHandler,        \* function or "null"
    reconnectHandler,
    closeHandler,
    outgoingQueue,            \* the envelopes waiting to be transmitted
    \* the environment of the session
    sockets,                  \* the WebSocket objects constructed so far: readyState,
                              \* whether the connection was established (opened),
                              \* the texts passed to send (sent)
    intervals,                \* the active setInterval timers
    \* history
    accepted,                 \* per WebSocket: the messages send took for it
    dropped,                  \* the messages passed to send during an outage
    invoked,                  \* the invocations of the message callbacks
    nInvoked,                 \* per counted kind of callback: its invocations
    afterClose,               \* what was called after the first close()
    nextId,                   \* the payload of the next message sent
    nIncoming                 \* envelopes received from the server
clientVars == <<websocket, permanentlyClosed, temporarilyDisconnected,
                messageHandlers, disconnectHandler, reconnectHandler,
                closeHandler, outgoingQueue, sockets, intervals, accepted,
                dropped, invoked, nInvoked, afterClose, nextId, nIncoming>>

\* The session's fields as one record, the form the handlers work on.
Session ==
    [websocket |-> websocket, permanentlyClosed |-> permanentlyClosed,
     temporarilyDisconnected |-> temporarilyDisconnected,
     messageHandlers |-> messageHandlers, disconnectHandler |-> disconnectHandler,
     reconnectHandler |-> reconnectHandler, closeHandler |-> closeHandler,
     outgoingQueue |-> outgoingQueue, sockets |-> sockets, intervals |-> intervals,
     accepted |-> accepted, dropped |-> dropped, invoked |-> invoked,
     nInvoked |-> nInvoked, afterClose |-> afterClose, nextId |-> nextId,
     threw |-> FALSE]

Become(s) ==
    /\ websocket' = s.websocket
    /\ permanentlyClosed' = s.permanentlyClosed
    /\ temporarilyDisconnected' = s.temporarilyDisconnected
    /\ messageHandlers' = s.messageHandlers
    /\ disconnectHandler' = s.disconnectHandler
    /\ reconnectHandler' = s.reconnectHandler
    /\ closeHandler' = s.closeHandler
    /\ outgoingQueue' = s.outgoingQueue
    /\ sockets' = s.sockets
    /\ intervals' = s.intervals
    /\ accepted' = s.accepted
    /\ dropped' = s.dropped
    /\ invoked' = s.invoked
    /\ nInvoked' = s.nInvoked
    /\ afterClose' = s.afterClose
    /\ nextId' = s.nextId

Throw(s) == [s EXCEPT !.threw = TRUE]

readyState(s) == s.sockets[s.websocket].readyState

\* new WebSocket(url), with the three callbacks attached.
makeWebSocket(s) ==
    [s EXCEPT !.sockets = Append(@, [readyState |-> CONNECTING, opened |-> FALSE, sent |-> <<>>]),
              !.accepted = Append(@, <<>>),
              !.websocket = Len(s.sockets) + 1]

\* The loop of flushOutgoingQueue: websocket.send of each envelope's text.
RECURSIVE transmitAll(_, _)
transmitAll(s, q) ==
    IF q = <<>> THEN s
    ELSE transmitAll([s EXCEPT !.sockets[s.websocket].sent =
                                   Append(@, stringifyEnvelope(Head(q)))],
                     Tail(q))

\* flushOutgoingQueue without the splice that empties the queue after the
\* envelopes were transmitted.
flushOutgoingQueue_noSplice(s) ==
    IF s.permanentlyClosed \/ s.temporarilyDisconnected
    THEN [s EXCEPT !.outgoingQueue = <<>>]
    ELSE IF readyState(s) = OPEN
         THEN transmitAll(s, s.outgoingQueue)
         ELSE s

\* flushOutgoingQueue which also empties the queue while the WebSocket is
\* not open.
flushOutgoingQueue_dropsUnlessOpen(s) ==
    IF s.permanentlyClosed \/ s.temporarilyDisconnected
    THEN [s EXCEPT !.outgoingQueue = <<>>]
    ELSE IF readyState(s) = OPEN
         THEN [transmitAll(s, s.outgoingQueue) EXCEPT !.outgoingQueue = <<>>]
         ELSE [s EXCEPT !.outgoingQueue = <<>>]

flushOutgoingQueue(s) ==
    IF s.permanentlyClosed \/ s.temporarilyDisconnected
    THEN [s EXCEPT !.outgoingQueue = <<>>]
    ELSE IF readyState(s) = OPEN
         THEN [transmitAll(s, s.outgoingQueue) EXCEPT !.outgoingQueue = <<>>]
         ELSE s

\* send without the check for a permanently closed session.
sendBody_noClosedCheck(s, type, message) ==
    IF type.js # "string" THEN Throw(s)
    ELSE IF ~jsonConvertible(message) THEN Throw(s)
    ELSE IF ~s.temporarilyDisconnected
         THEN flushOutgoingQueue(
                [s EXCEPT !.outgoingQueue = Append(@, MessageEnvelope(type, message))])
         ELSE s

\* send which queues the message before it checks for a permanently
\* closed session.
sendBody_checksLate(s, type, message) ==
    IF type.js # "string" THEN Throw(s)
    ELSE IF ~jsonConvertible(message) THEN Throw(s)
    ELSE IF s.permanentlyClosed
         THEN Throw([s EXCEPT !.outgoingQueue = Append(@, MessageEnvelope(type, message))])
    ELSE IF ~s.temporarilyDisconnected
         THEN flushOutgoingQueue(
                [s EXCEPT !.outgoingQueue = Append(@, MessageEnvelope(type, message))])
         ELSE s

\* The body of the session's send.
sendBody(s, type, message) ==
    IF type.js # "string" THEN Throw(s)
    ELSE IF ~jsonConvertible(message) THEN Throw(s)
    ELSE IF s.permanentlyClosed THEN Throw(s)
    ELSE IF ~s.temporarilyDisconnected
         THEN flushOutgoingQueue(
                [s EXCEPT !.outgoingQueue = Append(@, MessageEnvelope(type, message))])
         ELSE s

\* send(type, message), with the history of the call: which WebSocket the
\* message was taken for, or that it was dropped.
send(s, type, message) ==
    LET r == sendBody(s, type, message)
        took == ~r.threw /\ ~s.temporarilyDisconnected
                /\ readyState(s) \in {CONNECTING, OPEN}
    IN [r EXCEPT !.accepted[s.websocket] = IF took THEN Append(@, message) ELSE @,
                 !.dropped = IF ~r.threw /\ s.temporarilyDisconnected
                             THEN @ \cup {message} ELSE @,
                 !.afterClose = IF s.permanentlyClosed
                                THEN @ \cup {IF r.threw THEN "send threw" ELSE "send returned"}
                                ELSE @,
                 !.nextId = IF ~r.threw THEN @ + 1 ELSE @]

RECURSIVE close(_, _)
RECURSIVE invoke(_, _, _, _, _)

\* The library invokes the application's function fn with argument arg.
invoke(s, which, fn, arg, app) ==
    LET s1 == [s EXCEPT !.nInvoked = IF which \in DOMAIN @
                                     THEN [@ EXCEPT ![which] = @ + 1] ELSE @,
                        !.invoked = IF which = "message"
                                    THEN @ \cup {[fn |-> fn, arg |-> arg,
                                                  closed |-> s.permanentlyClosed]}
                                    ELSE @]
        does == IF which = "close" THEN app.close ELSE app.primary
    IN CASE does = "send"  -> send(s1, Str("a"), Num(s1.nextId))
         [] does = "close" -> close(s1, app)
         [] OTHER          -> s1

close(s, app) ==
    IF ~s.permanentlyClosed
    THEN LET s1 == [s EXCEPT !.permanentlyClosed = TRUE]
             s2 == IF readyState(s1) # CLOSING /\ readyState(s1) # CLOSED
                   THEN [s1 EXCEPT !.sockets[s1.websocket].readyState = CLOSING]
                   ELSE s1
         IN IF s2.closeHandler # "null"
            THEN invoke(s2, "close", s2.closeHandler, Undefined, app)
            ELSE s2
    ELSE [s EXCEPT !.afterClose = @ \cup {"close"}]

\* onSocketOpen which sends null whatever the reconnect callback returned.
onSocketOpen_sendsNull(s, app) ==
    IF s.temporarilyDisconnected
    THEN LET s1 == [s EXCEPT !.temporarilyDisconnected = FALSE,
                             !.outgoingQueue = <<>>]
             s2 == IF s1.reconnectHandler # "null"
                   THEN invoke(s1, "reconnect", s1.reconnectHandler, Undefined, app)
                   ELSE s1
             returned == IF s1.reconnectHandler # "null" THEN app.returns ELSE JSNull
             reconnectData == IF returned = Undefined THEN JSNull ELSE returned
         IN IF s2.threw THEN s2
            ELSE IF ~jsonConvertible(reconnectData) THEN Throw(s2)
            ELSE flushOutgoingQueue(
                   [s2 EXCEPT !.outgoingQueue = Append(@, ReconnectEnvelope(JSNull))])
    ELSE flushOutgoingQueue(s)

onSocketOpen(s, app) ==
    IF s.temporarilyDisconnected
    THEN LET s1 == [s EXCEPT !.temporarilyDisconnected = FALSE,
                             !.outgoingQueue = <<>>]
             s2 == IF s1.reconnectHandler # "null"
                   THEN invoke(s1, "reconnect", s1.reconnectHandler, Undefined, app)
                   ELSE s1
             returned == IF s1.reconnectHandler # "null" THEN app.returns ELSE JSNull
             reconnectData == IF returned = Undefined THEN JSNull ELSE returned
         IN IF s2.threw THEN s2
            ELSE IF ~jsonConvertible(reconnectData) THEN Throw(s2)
            ELSE flushOutgoingQueue(
                   [s2 EXCEPT !.outgoingQueue = Append(@, ReconnectEnvelope(reconnectData))])
    ELSE flushOutgoingQueue(s)

\* messageHandlers is an object literal: a property it does not have
\* itself is read from Object.prototype, whose toString is a function and
\* whose __proto__ reads as an object.
Builtins == {"Object.prototype.toString"}
ObjectPrototype ==
    [name \in {"toString", "__proto__"} |->
        IF name = "toString" THEN "Object.prototype.toString" ELSE "Object.prototype"]

\* messageHandlers[data.messageType]
lookup(handlers, messageType) ==
    IF messageType.js # "string" THEN "undefined"
    ELSE IF messageType.s \in DOMAIN handlers /\ handlers[messageType.s] # "undefined"
         THEN handlers[messageType.s]
    ELSE IF messageType.s \in DOMAIN ObjectPrototype
         THEN ObjectPrototype[messageType.s]
    ELSE "undefined"

\* messageHandlers[data.messageType](data.message): a function of the
\* application runs, a function of Object.prototype returns at once, and
\* calling what is no function throws a TypeError.
callHandler(s, handler, arg, app) ==
    IF handler \in Functions THEN invoke(s, "message", handler, arg, app)
    ELSE IF handler \in Builtins
         THEN [s EXCEPT !.invoked = @ \cup {[fn |-> handler, arg |-> arg,
                                             closed |-> s.permanentlyClosed]}]
    ELSE Throw(s)

onSocketMessage(s, text, app) ==
    LET data == parse(text) IN
    IF data.kind = "error" THEN Throw(s)
    ELSE IF data.kind = "value"
         THEN IF data.val = JSNull THEN Throw(s) ELSE s
    ELSE IF data.obj.type = Str("message")
         THEN IF lookup(s.messageHandlers, data.obj.messageType) # "undefined"
              THEN callHandler(s, lookup(s.messageHandlers, data.obj.messageType),
                               data.obj.message, app)
              ELSE s
    ELSE IF data.obj.type = Str("close") THEN close(s, app)
    ELSE s

\* onSocketClose which notifies the application of every close event.
onSocketClose_alwaysNotifies(s, timer, app) ==
    IF ~s.permanentlyClosed
    THEN LET d == [s EXCEPT !.temporarilyDisconnected = TRUE]
             s1 == IF d.disconnectHandler # "null"
                   THEN invoke(d, "disconnect", d.disconnectHandler, Undefined, app)
                   ELSE d
         IN IF s1.threw THEN s1
            ELSE [s1 EXCEPT !.intervals = @ \cup {timer}]
    ELSE s

\* onSocketClose; timer names the interval timer it sets.
onSocketClose(s, timer, app) ==
    IF ~s.permanentlyClosed
    THEN LET s1 == IF ~s.temporarilyDisconnected
                   THEN LET d == [s EXCEPT !.temporarilyDisconnected = TRUE]
                        IN IF d.disconnectHandler # "null"
                           THEN invoke(d, "disconnect", d.disconnectHandler, Undefined, app)
                           ELSE d
                   ELSE s
         IN IF s1.threw THEN s1
            ELSE [s1 EXCEPT !.intervals = @ \cup {timer}]
    ELSE s

\* The timer's function without the check for a permanently closed session.
reconnectingInterval_noClosedCheck(s, timer, constructs) ==
    IF constructs
    THEN [makeWebSocket(s) EXCEPT !.intervals = @ \ {timer}]
    ELSE s

\* The timer's function, which keeps the timer when the construction
\* succeeded.
reconnectingInterval_noClear(s, timer, constructs) ==
    IF ~s.permanentlyClosed
    THEN IF constructs THEN makeWebSocket(s) ELSE s
    ELSE [s EXCEPT !.intervals = @ \ {timer}]

\* The timer's function, which stops the timer only once it finds the
\* WebSocket it constructed connecting or open.
reconnectingInterval_stopsWhenConnected(s, timer, constructs) ==
    IF ~s.permanentlyClosed /\ readyState(s) \notin {CONNECTING, OPEN}
    THEN IF constructs THEN makeWebSocket(s) ELSE s
    ELSE [s EXCEPT !.intervals = @ \ {timer}]

\* The function the timer calls every two seconds; constructs says whether
\* new WebSocket(url) returns (TRUE) or throws (FALSE).
reconnectingInterval(s, timer, constructs) ==
    IF ~s.permanentlyClosed
    THEN IF constructs
         THEN [makeWebSocket(s) EXCEPT !.intervals = @ \ {timer}]
         ELSE s
    ELSE [s EXCEPT !.intervals = @ \ {timer}]

\* The registering methods: receive, disconnect, reconnect, close.  A
\* handler argument is "null", "undefined", a function, or "number" for a
\* value that is none of these.
HandlerArgs == Functions \cup {"null", "number"}

receive(s, type, handler) ==
    IF type.js # "string" THEN Throw(s)
    ELSE IF handler # "null" /\ handler \notin Functions THEN Throw(s)
    ELSE IF s.permanentlyClosed THEN Throw(s)
    ELSE IF handler = "null"
         THEN [s EXCEPT !.messageHandlers[type.s] = "undefined"]
         ELSE [s EXCEPT !.messageHandlers[type.s] = handler]

disconnect(s, handler) ==
    IF handler # "null" /\ handler \notin Functions THEN Throw(s)
    ELSE IF s.permanentlyClosed THEN Throw(s)
    ELSE [s EXCEPT !.disconnectHandler = handler]

reconnect(s, handler) ==
    IF handler # "null" /\ handler \notin Functions THEN Throw(s)
    ELSE IF s.permanentlyClosed THEN Throw(s)
    ELSE [s EXCEPT !.reconnectHandler = handler]

closeMethod(s, handler, app) ==
    IF handler # "undefined" /\ handler # "null" /\ handler \notin Functions THEN Throw(s)
    ELSE IF handler = "undefined" THEN close(s, app)
    ELSE [s EXCEPT !.closeHandler = handler]

\* ------------------------------------------------------------ the server
\* One connection of src/server/socket.js, from the end of the handshake.
\* Buffers are sequences of bytes.
VARIABLES
    \* src/server/socket.js:36-41
    started,
    closed,
    serverCloseHandler,       \* function or "null"
    serverMessageHandlers,    \* message type -> function or "undefined"
    dataReceived,
    payloadReceived,
    \* the environment of the connection
    written,                  \* the buffers and strings passed to socket.write
    wire,                     \* the bytes of the peer's last frame that have not arrived
    ended,                    \* the socket's close event was emitted
    uncaught,                 \* an exception left an event handler of the socket
    \* history
    nFrames,                  \* frames the peer wrote
    startEnvelopes,           \* the connect and reconnect envelopes parsed
    startCalls,               \* the invocations of the connection handler
    stream,                   \* the frames the peer wrote, in order
    dispatched,               \* the calls of message handlers, in order
    closeCallbacks,           \* invocations of the close callback
    closeCalls,               \* calls of close: 0, 1, or 2 for two or more
    closedWith,               \* the call of close that marked the connection closed
    followed                  \* that call dropped a whole frame that followed the current one
serverVars == <<started, closed, serverCloseHandler, serverMessageHandlers,
                dataReceived, payloadReceived, written, wire, ended, uncaught,
                nFrames, stream, startEnvelopes, startCalls, dispatched, closeCallbacks,
                closeCalls, closedWith, followed>>

\* The connection's fields as one record.  frameEnd is nextByteIndex while
\* a callback runs inside the data handler, 0 otherwise.
Connection ==
    [started |-> started, closed |-> closed, closeHandler |-> serverCloseHandler,
     messageHandlers |-> serverMessageHandlers, dataReceived |-> dataReceived,
     payloadReceived |-> payloadReceived, written |-> written,
     startEnvelopes |-> startEnvelopes, startCalls |-> startCalls,
     dispatched |-> dispatched,
     closeCallbacks |-> closeCallbacks, closeCalls |-> closeCalls,
     closedWith |-> closedWith, followed |-> followed,
     frameEnd |-> 0, threw |-> FALSE]

ServerBecome(c) ==
    /\ started' = c.started
    /\ closed' = c.closed
    /\ serverCloseHandler' = c.closeHandler
    /\ serverMessageHandlers' = c.messageHandlers
    /\ dataReceived' = c.dataReceived
    /\ payloadReceived' = c.payloadReceived
    /\ written' = c.written
    /\ startEnvelopes' = c.startEnvelopes
    /\ startCalls' = c.startCalls
    /\ dispatched' = c.dispatched
    /\ closeCallbacks' = c.closeCallbacks
    /\ closeCalls' = c.closeCalls
    /\ closedWith' = c.closedWith
    /\ followed' = c.followed

\* Buffer reads.  The first byte of a buffer has offset 0.
readUInt8(buffer, offset)    == buffer[offset + 1]
readUInt16BE(buffer, offset) == 256 * buffer[offset + 1] + buffer[offset + 2]
readUInt32BE(buffer, offset) ==
    65536 * readUInt16BE(buffer, offset) + readUInt16BE(buffer, offset + 2)
\* x << 32: the shift count is taken modulo 32, and the result is the
\* operand as a signed 32-bit integer.
shiftLeft32(buffer, offset) ==
    IF buffer[offset + 1] >= 128
    THEN 65536 * (readUInt16BE(buffer, offset) - 65536) + readUInt16BE(buffer, offset + 2)
    ELSE readUInt32BE(buffer, offset)
\* buffer.slice(start): empty when start is at or past the end.
slice(buffer, start) == SubSeq(buffer, start + 1, Len(buffer))

\* a ^ b on bytes.
RECURSIVE xor(_, _)
xor(a, b) ==
    IF a = 0 THEN b
    ELSE IF b = 0 THEN a
    ELSE 2 * xor(a \div 2, b \div 2) + ((a + b) % 2)

\* ---- the peer of the connection
\* A frame as a browser writes it: masked, the length in seven bits.
MaskingKey == <<37, 250, 33, 61>>
BrowserFrame(fin, opcode, payload) ==
    <<128 * fin + opcode, 128 + Len(payload)>> \o MaskingKey
      \o [i \in 1..Len(payload) |-> xor(payload[i], MaskingKey[((i - 1) % 4) + 1])]
TextFrame(text) == BrowserFrame(1, 1, text)
CloseFrame == BrowserFrame(1, 8, <<>>)

\* The texts a peer sends: the envelopes of the client, the JSON text
\* null, and a text that is not JSON.
NotJSON == <<0>>
PeerTexts ==
    {stringifyEnvelope(ConnectEnvelope),
     stringifyEnvelope(ReconnectEnvelope(Str("ctx-42"))),
     stringifyEnvelope(MessageEnvelope(Str("a"), Num(0))),
     <<CharNull>>, NotJSON}
PeerFrames == {TextFrame(text) : text \in PeerTexts} \cup {CloseFrame}
FrameSeqs(most) == UNION {[1..m -> PeerFrames] : m \in 0..most}

\* Frames a peer may also write: the length in 16 or in 64 bits, a message
\* in two fragments, and a ping.
Frame16(fin, opcode, payload) ==
    <<128 * fin + opcode, 128 + 126, Len(payload) \div 256, Len(payload) % 256>>
      \o MaskingKey
      \o [i \in 1..Len(payload) |-> xor(payload[i], MaskingKey[((i - 1) % 4) + 1])]
Frame64(fin, opcode, payload) ==
    <<128 * fin + opcode, 128 + 127, 0, 0, 0, 0, 0, 0, 0, Len(payload)>>
      \o MaskingKey
      \o [i \in 1..Len(payload) |-> xor(payload[i], MaskingKey[((i - 1) % 4) + 1])]
FirstFragment(text) == BrowserFrame(0, 1, SubSeq(text, 1, 1))
LastFragment(text)  == BrowserFrame(1, 0, SubSeq(text, 2, Len(text)))
PingFrame == BrowserFrame(1, 9, <<>>)
MoreFrames ==
    {Frame16(1, 1, stringifyEnvelope(ConnectEnvelope)),
     Frame64(1, 1, stringifyEnvelope(MessageEnvelope(Str("a"), Num(0)))),
     FirstFragment(stringifyEnvelope(ConnectEnvelope)),
     LastFragment(stringifyEnvelope(ConnectEnvelope)),
     PingFrame,
     TextFrame(stringifyEnvelope(MessageEnvelope(Str("toString"), Num(0)))),
     TextFrame(stringifyEnvelope(MessageEnvelope(Str("__proto__"), Num(0))))}
Streams(most) == UNION {[1..m -> PeerFrames \cup MoreFrames] : m \in 1..most}

\* The buffer begins with a whole frame of the peer.
WholeFrame(buffer) ==
    \E frame \in PeerFrames :
       Len(buffer) >= Len(frame) /\ SubSeq(buffer, 1, Len(frame)) = frame

\* What the application's functions do when the connection invokes them in
\* one handler run: the connection handler (start) does nothing, registers
\* a message callback and a close callback, calls the session's close, or
\* registers the callbacks and then calls close; a message callback
\* (primary) and the close callback do as on the client.
StartDoes == {"noop", "register", "close", "register, close"}
ServerApps == [start : StartDoes, primary : Does, close : Does]

\* socket.write
write(c, buffer) == [c EXCEPT !.written = Append(@, buffer)]

\* The frame of a text (lines 49-68): the first byte, the length, the
\* text, each passed to socket.write.  Buffer.writeUInt16BE throws for a
\* value above 65535, after the first byte was written.
sendText(c, data) ==
    IF Len(data) < 126
    THEN write(write(write(c, <<129>>), <<Len(data)>>), data)
    ELSE IF Len(data) < 65536
         THEN write(write(write(c, <<129>>),
                          <<126, Len(data) \div 256, Len(data) % 256>>), data)
         ELSE Throw(write(c, <<129>>))

\* sendMessage
sendMessage(c, message) ==
    IF ~c.closed THEN sendText(c, stringifyEnvelope(message)) ELSE c

RECURSIVE serverClose(_, _, _, _)
RECURSIVE serverInvoke(_, _, _, _)

\* The session's send.
serverSend(c, type, message) ==
    IF type.js # "string" THEN Throw(c)
    ELSE IF ~jsonConvertible(message) THEN Throw(c)
    ELSE IF c.closed THEN Throw(c)
    ELSE sendMessage(c, MessageEnvelope(type, message))

\* The session's receive.
serverReceive(c, type, handler) ==
    IF type.js # "string" THEN Throw(c)
    ELSE IF handler # "null" /\ handler \notin Functions THEN Throw(c)
    ELSE IF handler = "null"
         THEN [c EXCEPT !.messageHandlers[type.s] = "undefined"]
         ELSE [c EXCEPT !.messageHandlers[type.s] = handler]

\* The session's close.
serverCloseMethod(c, handler, app) ==
    IF handler # "undefined" /\ handler # "null" /\ handler \notin Functions THEN Throw(c)
    ELSE IF handler = "undefined" THEN serverClose(c, TRUE, "application", app)
    ELSE [c EXCEPT !.closeHandler = handler]

\* The connection invokes one of the application's functions: the
\* connection handler ("start"), a message callback or the close callback.
serverInvoke(c, which, arg, app) ==
    LET called == [arg |-> arg, closed |-> c.closed]
        c1 == [c EXCEPT !.startCalls = IF which = "start" THEN Append(@, called) ELSE @,
                        !.closeCallbacks = IF which = "close" THEN @ + 1 ELSE @]
        does == CASE which = "start" -> app.start
                  [] which = "close" -> app.close
                  [] OTHER           -> app.primary
    IN CASE does = "register" ->
              serverCloseMethod(serverReceive(c1, Str("a"), "f"), "f", app)
         [] does = "register, close" ->
              serverCloseMethod(
                serverCloseMethod(serverReceive(c1, Str("a"), "f"), "f", app),
                "undefined", app)
         [] does = "send"  -> serverSend(c1, Str("a"), Num(0))
         [] does = "close" -> serverCloseMethod(c1, "undefined", app)
         [] OTHER          -> c1

\* messageHandlers[messageData.messageType](messageData.message), as on the
\* client.
serverCallHandler(c, handler, arg, app) ==
    LET c1 == [c EXCEPT !.dispatched = Append(@, [fn |-> handler, arg |-> arg,
                                                  closed |-> c.closed])]
    IN IF handler \in Functions THEN serverInvoke(c1, "message", arg, app)
       ELSE IF handler \in Builtins THEN c1
       ELSE Throw(c)

\* The history of a call of close.
counted(c) == [c EXCEPT !.closeCalls = IF @ < 2 THEN @ + 1 ELSE @]

\* The marking of lines 84-86 without the reset of dataReceived.
markClosed_keepsData(c, needToCloseSocket, cause) ==
    [c EXCEPT !.closed = TRUE,
              !.closedWith = [need |-> needToCloseSocket, cause |-> cause,
                              handler |-> c.closeHandler, written |-> Len(c.written)],
              !.followed = WholeFrame(slice(c.dataReceived, c.frameEnd))]

\* Lines 84-86: the connection is marked closed and dataReceived emptied.
markClosed(c, needToCloseSocket, cause) ==
    [c EXCEPT !.closed = TRUE,
              !.dataReceived = <<>>,
              !.closedWith = [need |-> needToCloseSocket, cause |-> cause,
                              handler |-> c.closeHandler, written |-> Len(c.written)],
              !.followed = WholeFrame(slice(c.dataReceived, c.frameEnd))]

\* Lines 88-91: the application is notified.
notifyClosed(c, app) ==
    IF c.closeHandler # "null" THEN serverInvoke(c, "close", Undefined, app) ELSE c

\* close which asks the client to close whatever needToCloseSocket says.
serverClose_alwaysAsks(c, needToCloseSocket, cause, app) ==
    IF ~c.closed
    THEN notifyClosed(markClosed(sendMessage(counted(c), CloseEnvelope),
                                 needToCloseSocket, cause), app)
    ELSE counted(c)

\* close(needToCloseSocket); cause names the caller.
serverClose(c, needToCloseSocket, cause, app) ==
    IF ~c.closed
    THEN notifyClosed(markClosed(IF needToCloseSocket
                                 THEN sendMessage(counted(c), CloseEnvelope)
                                 ELSE counted(c),
                                 needToCloseSocket, cause), app)
    ELSE counted(c)

\* The dispatch of a parsed text message (lines 183-201) without the check
\* of started.
dispatch_noStartedCheck(c, messageData, app) ==
    LET c0 == [c EXCEPT !.startEnvelopes =
                 IF messageData.obj.type \in {Str("connect"), Str("reconnect")}
                 THEN Append(@, messageData.obj) ELSE @]
    IN
    IF messageData.kind = "value"
    THEN IF messageData.val = JSNull THEN Throw(c) ELSE c
    ELSE IF messageData.obj.type = Str("connect")
         THEN serverInvoke([c0 EXCEPT !.started = TRUE], "start", JSNull, app)
    ELSE IF messageData.obj.type = Str("reconnect")
         THEN serverInvoke([c0 EXCEPT !.started = TRUE], "start",
                           messageData.obj.reconnectData, app)
    ELSE IF messageData.obj.type = Str("message")
         THEN IF lookup(c.messageHandlers, messageData.obj.messageType) # "undefined"
              THEN serverCallHandler(c, lookup(c.messageHandlers, messageData.obj.messageType),
                                     messageData.obj.message, app)
              ELSE c
    ELSE c

\* The dispatch of a parsed text message (lines 183-201).
dispatch(c, messageData, app) ==
    LET c0 == [c EXCEPT !.startEnvelopes =
                 IF messageData.obj.type \in {Str("connect"), Str("reconnect")}
                 THEN Append(@, messageData.obj) ELSE @]
    IN
    IF messageData.kind = "value"
    THEN IF messageData.val = JSNull THEN Throw(c) ELSE c
    ELSE IF messageData.obj.type = Str("connect")
         THEN IF ~c.started
              THEN serverInvoke([c0 EXCEPT !.started = TRUE], "start", JSNull, app)
              ELSE c0
    ELSE IF messageData.obj.type = Str("reconnect")
         THEN IF ~c.started
              THEN serverInvoke([c0 EXCEPT !.started = TRUE], "start",
                                messageData.obj.reconnectData, app)
              ELSE c0
    ELSE IF messageData.obj.type = Str("message")
         THEN IF lookup(c.messageHandlers, messageData.obj.messageType) # "undefined"
              THEN serverCallHandler(c, lookup(c.messageHandlers, messageData.obj.messageType),
                                     messageData.obj.message, app)
              ELSE c
    ELSE c

\* The fields of the frame at the head of a buffer, as the data handler
\* reads them: the end of the length, the payload's length, the end of the
\* masking key, and the end of the frame.
finBit(d)  == (readUInt8(d, 0) \div 128) = 1
opcodeOf(d) == readUInt8(d, 0) % 16
maskBit(d) == (readUInt8(d, 1) \div 128) = 1
lengthCode(d) == readUInt8(d, 1) % 128
afterLength(d) == IF lengthCode(d) < 126 THEN 2 ELSE IF lengthCode(d) = 126 THEN 4 ELSE 10
payloadLengthOf(d) ==
    IF lengthCode(d) < 126 THEN lengthCode(d)
    ELSE IF lengthCode(d) = 126 THEN readUInt16BE(d, 2)
    ELSE shiftLeft32(d, 2) + readUInt32BE(d, 6)
afterKey(d) == IF maskBit(d) THEN afterLength(d) + 4 ELSE afterLength(d)
frameEndOf(d) == afterKey(d) + payloadLengthOf(d)

\* The payload decrypted in place (lines 161-166).
decrypt(d) ==
    [i \in 1..Len(d) |->
       IF maskBit(d) /\ i > afterKey(d) /\ i <= frameEndOf(d)
       THEN xor(d[i], readUInt8(d, afterLength(d) + ((i - afterKey(d) - 1) % 4)))
       ELSE d[i]]

RECURSIVE eat(_, _)

\* The end of a round (lines 203-211), after the frame whose end is
\* nextByteIndex; an exception has left the handler before.
freeFrame(c, fin, nextByteIndex, app) ==
    IF c.threw THEN [c EXCEPT !.frameEnd = 0]
    ELSE eat([c EXCEPT !.payloadReceived = IF fin THEN <<>> ELSE @,
                       !.dataReceived = IF Len(@) = nextByteIndex THEN <<>>
                                        ELSE slice(@, nextByteIndex),
                       !.frameEnd = 0], app)

\* A final text frame: the message is parsed and dispatched (lines 174-202).
onText(c, messageData, nextByteIndex, app) ==
    IF messageData.kind = "error"
    THEN [serverClose(c, TRUE, "parse", app) EXCEPT !.frameEnd = 0]
    ELSE freeFrame(dispatch(c, messageData, app), TRUE, nextByteIndex, app)

\* A whole frame is at the head of dataReceived (lines 160-202).
onFrame(c, fin, opcode, nextByteIndex, app) ==
    IF fin /\ opcode = 1
    THEN onText(c, parse(c.payloadReceived), nextByteIndex, app)
    ELSE freeFrame(c, fin, nextByteIndex, app)

\* The loop of the data handler which acts on a close frame only when the
\* whole frame has arrived.
eat_waitsForFrame(c, app) ==
    LET d == c.dataReceived IN
    IF Len(d) < 2 THEN c
    ELSE IF Len(d) < afterLength(d) THEN c
    ELSE IF maskBit(d) /\ Len(d) < afterKey(d) THEN c
    ELSE IF Len(d) < frameEndOf(d) THEN c
    ELSE IF opcodeOf(d) = 8 THEN serverClose(c, TRUE, "frame", app)
    ELSE onFrame([c EXCEPT !.dataReceived = decrypt(d),
                           !.payloadReceived =
                               @ \o SubSeq(decrypt(d), afterKey(d) + 1, frameEndOf(d)),
                           !.frameEnd = frameEndOf(d)],
                 finBit(d), opcodeOf(d), frameEndOf(d), app)

\* The loop of the data handler: one frame of dataReceived per round.
eat(c, app) ==
    LET d == c.dataReceived IN
    IF Len(d) < 1 THEN c
    ELSE IF opcodeOf(d) = 8 THEN serverClose(c, TRUE, "frame", app)
    ELSE IF Len(d) < 2 THEN c
    ELSE IF Len(d) < afterLength(d) THEN c
    ELSE IF maskBit(d) /\ Len(d) < afterKey(d) THEN c
    ELSE IF Len(d) < frameEndOf(d) THEN c
    ELSE onFrame([c EXCEPT !.dataReceived = decrypt(d),
                           !.payloadReceived =
                               @ \o SubSeq(decrypt(d), afterKey(d) + 1, frameEndOf(d)),
                           !.frameEnd = frameEndOf(d)],
                 finBit(d), opcodeOf(d), frameEndOf(d), app)

\* socket.on('data')
onData(c, data, app) ==
    IF c.closed THEN c
    ELSE eat([c EXCEPT !.dataReceived = @ \o data], app)

\* socket.on('close')
onClose(c, app) == serverClose(c, FALSE, "tcp", app)

ConnectionInit ==
    /\ started = FALSE
    /\ closed = FALSE
    /\ serverCloseHandler = "null"
    /\ serverMessageHandlers = [t \in MsgTypes |-> "undefined"]
    /\ dataReceived = <<>>
    /\ payloadReceived = <<>>
    /\ written = <<>>
    /\ ended = FALSE
    /\ uncaught = FALSE
    /\ startEnvelopes = <<>>
    /\ startCalls = <<>>
    /\ dispatched = <<>>
    /\ closeCallbacks = 0
    /\ closeCalls = 0
    /\ closedWith = [need |-> FALSE, cause |-> "", handler |-> "null", written |-> 0]
    /\ followed = FALSE

\* A connection whose peer has written nothing yet.
ServerInit ==
    /\ ConnectionInit
    /\ wire = <<>>
    /\ nFrames = 0
    /\ stream = <<>>

\* ---- the client's WebSocket at the far end of the connection
VARIABLES
    linked,                   \* the WebSocket whose frames the connection receives; 0: none
    transferred,              \* how many of its texts were written as frames
    returned                  \* what the reconnect callback returned when it opened
linkVars == <<linked, transferred, returned>>

\* The state after connect(host, secure) has returned (lines 172-180): the
\* first WebSocket is connecting and the queue holds the connect envelope,
\* which the first flush left in place.
ClientInit ==
    /\ websocket = 1
    /\ permanentlyClosed = FALSE
    /\ temporarilyDisconnected = FALSE
    /\ messageHandlers = [t \in MsgTypes |-> "undefined"]
    /\ disconnectHandler = "null"
    /\ reconnectHandler = "null"
    /\ closeHandler = "null"
    /\ outgoingQueue = <<ConnectEnvelope>>
    /\ sockets = <<[readyState |-> CONNECTING, opened |-> FALSE, sent |-> <<>>]>>
    /\ intervals = {}
    /\ accepted = << <<>> >>
    /\ dropped = {}
    /\ invoked = {}
    /\ nInvoked = [k \in {"close"} |-> 0]
    /\ afterClose = {}
    /\ nextId = 1
    /\ nIncoming = 0

\* The choices of the application's behaviour that can matter in a run
\* that invokes a primary callback (primary), uses the reconnect callback's
\* value (returns) or calls close itself (direct).  The application passes
\* at most MaxSends messages to send, from its callbacks or otherwise.
Relevant(primary, returns, direct) ==
    {app \in Apps :
       /\ ~primary => app.primary = "noop"
       /\ app.primary = "send" => nextId <= MaxSends
       /\ ~(primary /\ returns) => app.returns = Undefined
       /\ ~(/\ closeHandler # "null"
            /\ ~permanentlyClosed
            /\ direct \/ (primary /\ app.primary = "close")) => app.close = "noop"}

\* ---- the events of the WebSocket objects
SocketOpen(t, app) ==
    /\ sockets[t].readyState = CONNECTING
    /\ app \in Relevant(temporarilyDisconnected /\ reconnectHandler # "null", TRUE, FALSE)
    /\ Become(onSocketOpen([Session EXCEPT !.sockets[t].readyState = OPEN,
                                             !.sockets[t].opened = TRUE], app))
    /\ returned' = IF t = linked /\ temporarilyDisconnected
                   THEN [reconnected |-> TRUE, registered |-> reconnectHandler # "null",
                         value |-> app.returns]
                   ELSE returned
    /\ UNCHANGED <<nIncoming, serverVars, linked, transferred>>

\* The peer starts the closing handshake.
SocketClosing(t) ==
    /\ sockets[t].readyState = OPEN
    /\ sockets' = [sockets EXCEPT ![t].readyState = CLOSING]
    /\ UNCHANGED <<websocket, permanentlyClosed, temporarilyDisconnected,
                   messageHandlers, disconnectHandler, reconnectHandler,
                   closeHandler, outgoingQueue, intervals, accepted, dropped,
                   invoked, nInvoked, afterClose, nextId, nIncoming>>
    /\ UNCHANGED <<serverVars, linkVars>>

\* The texts the server writes: a message envelope or the close envelope.
IncomingTexts ==
    {stringifyEnvelope(MessageEnvelope(Str(t), Num(0))) : t \in MsgTypes}
      \cup {stringifyEnvelope(CloseEnvelope)}

\* A WebSocket whose connection was established delivers a message while
\* it is open or, the closing handshake not yet finished, closing.
SocketMessage(t, text, app) ==
    /\ sockets[t].readyState \in {OPEN, CLOSING}
    /\ sockets[t].opened
    /\ nIncoming < MaxIncoming
    /\ app \in Relevant(parse(text).obj.type = Str("message"), FALSE,
                        parse(text).obj.type = Str("close"))
    /\ nIncoming' = nIncoming + 1
    /\ Become(onSocketMessage(Session, text, app))
    /\ UNCHANGED <<serverVars, linkVars>>

SocketClose(t, app) ==
    /\ sockets[t].readyState # CLOSED
    /\ app \in Relevant(~permanentlyClosed /\ ~temporarilyDisconnected
                           /\ disconnectHandler # "null", FALSE, FALSE)
    /\ Become(onSocketClose([Session EXCEPT !.sockets[t].readyState = CLOSED], t, app))
    /\ UNCHANGED <<nIncoming, serverVars, linkVars>>

\* An interval timer fires.
Interval(timer, constructs) ==
    /\ timer \in intervals
    /\ constructs => Len(sockets) < MaxSockets
    /\ Become(reconnectingInterval(Session, timer, constructs))
    /\ UNCHANGED <<nIncoming, serverVars, linkVars>>

\* ---- the application's calls on the client
Send(type, message) ==
    /\ nextId <= MaxSends
    /\ Become(send(Session, type, message))
    /\ UNCHANGED <<nIncoming, serverVars, linkVars>>

Receive(type, handler) ==
    /\ Become(receive(Session, type, handler))
    /\ UNCHANGED <<nIncoming, serverVars, linkVars>>

Disconnect(handler) ==
    /\ Become(disconnect(Session, handler))
    /\ UNCHANGED <<nIncoming, serverVars, linkVars>>

Reconnect(handler) ==
    /\ Become(reconnect(Session, handler))
    /\ UNCHANGED <<nIncoming, serverVars, linkVars>>

Close(handler, app) ==
    /\ app \in Relevant(FALSE, FALSE, handler = "undefined")
    /\ Become(closeMethod(Session, handler, app))
    /\ UNCHANGED <<nIncoming, serverVars, linkVars>>

SocketIds == 1..Len(sockets)

Next ==
    \/ \E t \in SocketIds, app \in Apps : SocketOpen(t, app)
    \/ \E t \in SocketIds : SocketClosing(t)
    \/ \E t \in SocketIds, text \in IncomingTexts, app \in Apps : SocketMessage(t, text, app)
    \/ \E t \in SocketIds, app \in Apps : SocketClose(t, app)
    \/ \E timer \in intervals, constructs \in BOOLEAN : Interval(timer, constructs)
    \/ \E type \in {Str("a"), Num(0)}, message \in {Num(nextId), Undefined} : Send(type, message)
    \/ \E type \in {Str(t) : t \in MsgTypes} \cup {Num(0)}, handler \in HandlerArgs :
          Receive(type, handler)
    \/ \E handler \in HandlerArgs : Disconnect(handler)
    \/ \E handler \in HandlerArgs : Reconnect(handler)
    \/ \E handler \in HandlerArgs \cup {"undefined"}, app \in Apps : Close(handler, app)

\* ---- the events of the server's socket
\* The choices of the application's behaviour that can matter to the
\* connection: in a data event (data) or in a call of the session's close.
ServerRelevant(data) ==
    {app \in ServerApps :
       LET registers == data /\ ~started /\ app.start \in {"register", "register, close"} IN
       /\ (started \/ ~data) => app.start = "noop"
       /\ app.primary # "noop" =>
             data /\ (registers \/ serverMessageHandlers["a"] # "undefined")
       /\ app.primary = "send" => Len(written) < 3 * MaxSends
       /\ app.close # "noop" => ~closed /\ (registers \/ serverCloseHandler # "null")}

\* The bytes of a sequence of frames.
RECURSIVE flatten(_)
flatten(frames) == IF frames = <<>> THEN <<>> ELSE Head(frames) \o flatten(Tail(frames))

\* The peer has written frames more, and the next n bytes arrive in one
\* chunk, which reaches into the last frame written.  An exception that
\* leaves the handler ends the process.
Data(frames, n, app) ==
    /\ ~ended /\ ~uncaught
    /\ nFrames + Len(frames) <= MaxFrames
    /\ n \in 1..Len(wire \o flatten(frames))
    /\ frames # <<>> => n > Len(wire \o flatten(SubSeq(frames, 1, Len(frames) - 1)))
    /\ app \in ServerRelevant(TRUE)
    /\ LET c == onData(Connection, SubSeq(wire \o flatten(frames), 1, n), app)
       IN ServerBecome(c) /\ uncaught' = c.threw
    /\ wire' = SubSeq(wire \o flatten(frames), n + 1, Len(wire \o flatten(frames)))
    /\ nFrames' = nFrames + Len(frames)
    /\ stream' = stream \o frames
    /\ UNCHANGED <<ended, clientVars, linkVars>>

\* The socket emits its close event.
SocketEnd(app) ==
    /\ ~ended /\ ~uncaught
    /\ app \in ServerRelevant(FALSE)
    /\ ended' = TRUE
    /\ LET c == onClose(Connection, app)
       IN ServerBecome(c) /\ uncaught' = c.threw
    /\ UNCHANGED <<wire, nFrames, stream, clientVars, linkVars>>

\* ---- the application's calls on the server's session, which it holds
\* once the connection handler was invoked
SessionSend(type, message) ==
    /\ started /\ ~uncaught
    /\ Len(written) < 3 * MaxSends
    /\ ServerBecome(serverSend(Connection, type, message))
    /\ UNCHANGED <<wire, ended, uncaught, nFrames, stream, clientVars, linkVars>>

SessionReceive(type, handler) ==
    /\ started /\ ~uncaught
    /\ ServerBecome(serverReceive(Connection, type, handler))
    /\ UNCHANGED <<wire, ended, uncaught, nFrames, stream, clientVars, linkVars>>

SessionClose(handler, app) ==
    /\ started /\ ~uncaught
    /\ app \in ServerRelevant(FALSE)
    /\ handler # "undefined" => app.close = "noop"
    /\ ServerBecome(serverCloseMethod(Connection, handler, app))
    /\ UNCHANGED <<wire, ended, uncaught, nFrames, stream, clientVars, linkVars>>

NextServer ==
    \/ \E frames \in FrameSeqs(MaxFrames - nFrames), app \in ServerApps :
          \E n \in 1..Len(wire \o flatten(frames)) : Data(frames, n, app)
    \/ \E app \in ServerApps : SocketEnd(app)
    \/ \E type \in {Str("a"), Num(0)}, message \in {Num(0), Undefined} :
          SessionSend(type, message)
    \/ \E type \in {Str(t) : t \in MsgTypes} \cup {Num(0)}, handler \in HandlerArgs :
          SessionReceive(type, handler)
    \/ \E handler \in HandlerArgs \cup {"undefined"}, app \in ServerApps :
          SessionClose(handler, app)

\* ---- the encoder alone
\* A JSON text of n characters.
TextOfLength(n) == [i \in 1..n |-> CharNum]
TextLengths == 0..MaxShortText \cup {65535, 65536}

\* The connection writes the frame of a text of n characters.
Encode(n) ==
    /\ written = <<>>
    /\ ServerBecome(sendText(Connection, TextOfLength(n)))
    /\ UNCHANGED <<wire, ended, uncaught, nFrames, stream, clientVars, linkVars>>

NextEncoder == \E n \in TextLengths : Encode(n)

\* ---- a stream of frames, written whole by the peer, arrives in chunks
\* The application registers its callbacks in the connection handler, or
\* not at all, and its message callback does any of the three things.
ChunkApps == {app \in ServerApps : app.close = "noop" /\ app.start # "close"}
NextChunks ==
    \E app \in ChunkApps : \E n \in 1..Len(wire) : Data(<<>>, n, app)

\* ---- the client's WebSocket and the server's connection joined
\* The browser writes the next text passed to the linked WebSocket's send
\* as a frame.
Transfer ==
    /\ linked \in SocketIds
    /\ transferred < Len(sockets[linked].sent)
    /\ transferred' = transferred + 1
    /\ nFrames' = nFrames + 1
    /\ wire' = wire \o TextFrame(sockets[linked].sent[transferred + 1])
    /\ stream' = Append(stream, TextFrame(sockets[linked].sent[transferred + 1]))
    /\ UNCHANGED <<started, closed, serverCloseHandler, serverMessageHandlers,
                   dataReceived, payloadReceived, written, ended, uncaught,
                   startEnvelopes, startCalls, dispatched, closeCallbacks,
                   closeCalls, closedWith, followed>>
    /\ UNCHANGED <<clientVars, linked, returned>>

NextLink ==
    \/ \E t \in SocketIds, app \in Apps : SocketOpen(t, app)
    \/ \E t \in SocketIds, app \in Apps : SocketClose(t, app)
    \/ \E timer \in intervals : Interval(timer, TRUE)
    \/ \E message \in {Num(nextId)} : Send(Str("a"), message)
    \/ \E handler \in HandlerArgs : Reconnect(handler)
    \/ Transfer
    \/ \E app \in ServerApps : Data(<<>>, Len(wire), app)

vars == <<clientVars, serverVars, linkVars>>
LinkInit ==
    /\ transferred = 0
    /\ returned = [reconnected |-> FALSE, registered |-> FALSE, value |-> Undefined]
Init == ClientInit /\ ServerInit /\ LinkInit /\ linked = 0
Spec == Init /\ [][Next]_vars

\* setInterval keeps calling the timer's function, and new WebSocket(url)
\* does not throw forever: a timer that could construct a WebSocket
\* eventually fires with the construction succeeding.
SpecLive == Spec /\ \A timer \in 1..MaxSockets : WF_vars(Interval(timer, TRUE))

\* The server's connection with any peer.
SpecServer == Init /\ [][NextServer]_vars

\* The client with the connection that serves one of its WebSockets.
InitLink == ClientInit /\ ServerInit /\ LinkInit /\ linked \in 1..MaxSockets
SpecLink == InitLink /\ [][NextLink]_vars

\* The server's connection with a stream of frames cut into chunks at any
\* offsets.
InitChunks ==
    /\ ClientInit /\ LinkInit /\ linked = 0
    /\ ConnectionInit
    /\ stream \in Streams(MaxFrames)
    /\ nFrames = Len(stream)
    /\ wire = flatten(stream)
SpecChunks == InitChunks /\ [][NextChunks]_vars

\* The server's encoder with texts of the lengths around its tiers.
SpecEncoder == Init /\ [][NextEncoder]_vars

\* The server's decoder with the head of a frame whose length is written in
\* 64 bits: the two header bytes, the two 32-bit words of the length and
\* the masking key, before any byte of the payload.  The words are those
\* whose decoded length is not negative and below 2^31.
HighWords == {<<0, 0, 0, 0>>, <<0, 0, 0, 1>>, <<0, 0, 0, 2>>, <<0, 0, 1, 0>>,
              <<0, 1, 0, 0>>, <<1, 0, 0, 0>>}
LowWords == {<<0, 0, 0, 0>>, <<0, 0, 0, 1>>, <<0, 0, 0, 200>>, <<0, 0, 1, 0>>,
             <<0, 1, 0, 0>>, <<1, 0, 0, 0>>}
Header64(fin, opcode, high, low) ==
    <<128 * fin + opcode, 128 + 127>> \o high \o low \o MaskingKey
InitLength64 ==
    /\ ClientInit /\ LinkInit /\ linked = 0
    /\ ConnectionInit
    /\ stream \in {<<Header64(1, 1, high, low)>> : high \in HighWords, low \in LowWords}
    /\ nFrames = Len(stream)
    /\ wire = flatten(stream)
SpecLength64 == InitLength64 /\ [][NextChunks]_vars

\* ------------------------------------------------------------ properties
\* The envelopes a WebSocket was handed, read back from their texts.
Transmitted(t) == [i \in 1..Len(sockets[t].sent) |-> parse(sockets[t].sent[i]).obj]
IsMessage(e) == e.type = Str("message")
Payloads(envelopes) ==
    LET messages == SelectSeq(envelopes, IsMessage)
    IN [i \in 1..Len(messages) |-> messages[i].message]

\* C1: on every WebSocket that was handed anything, the envelopes handed to
\* it are one connect or reconnect envelope followed by exactly the
\* messages send took for that WebSocket, once each and in the order of
\* the calls.
C1_LeadThenAcceptedInOrder ==
    \A t \in SocketIds :
        Transmitted(t) # <<>> =>
            /\ Transmitted(t)[1].type \in {Str("connect"), Str("reconnect")}
            /\ Tail(Transmitted(t)) =
                 [i \in 1..Len(accepted[t]) |-> MessageEnvelope(Str("a"), accepted[t][i])]

\* The messages alone: exactly the accepted ones, once each, in order.
C1_AcceptedInOrder ==
    \A t \in SocketIds :
        Transmitted(t) # <<>> => Payloads(Transmitted(t)) = accepted[t]

\* A state in which the reconnect callback's send put a message on the
\* second WebSocket: two envelopes transmitted, one message accepted.
C1_ReconnectedAndSent ==
    /\ Len(sockets) >= 2
    /\ Len(sockets[2].sent) = 2
    /\ Len(accepted[2]) = 1

\* C2: no message passed to send during an outage is among the envelopes
\* handed to any WebSocket, and the handling of the open event that ends an
\* outage (the only step that resets temporarilyDisconnected) leaves the
\* outgoing queue empty.
C2_DroppedNeverTransmitted ==
    /\ [](\A t \in SocketIds : \A m \in dropped :
              \A i \in 1..Len(sockets[t].sent) : Transmitted(t)[i].message # m)
    /\ [][temporarilyDisconnected /\ ~temporarilyDisconnected'
             => outgoingQueue' = <<>>]_vars

\* A message was dropped during an outage, and a WebSocket constructed by
\* the reconnect timer is open and was handed its envelopes.
C2_DroppedThenReconnected ==
    /\ dropped # {}
    /\ \E t \in SocketIds : /\ t > 1
                            /\ sockets[t].readyState = OPEN
                            /\ sockets[t].sent # <<>>

\* C3: no message callback is invoked once the session is permanently
\* closed.
C3_NoDeliveryAfterClose == \A call \in invoked : ~call.closed

\* C5: a step taken while the session is permanently closed constructs no
\* WebSocket.
C5_NoTransportAfterClose ==
    [][permanentlyClosed => Len(sockets') = Len(sockets)]_vars

\* The timer set by the first WebSocket's close event fired after the
\* session was closed: it is gone and no second WebSocket exists.
C5_TimerFiredAfterClose ==
    /\ permanentlyClosed
    /\ temporarilyDisconnected
    /\ intervals = {}
    /\ Len(sockets) = 1

\* C7: the step in which the session becomes permanently closed invokes
\* the close callback registered at that moment once (any further close()
\* in that step, as from the callback itself, changes nothing), no later
\* step invokes it, and in every state after the first close() each call
\* of send throws.
C7_CloseOnceThenSendThrows ==
    /\ [][~permanentlyClosed /\ permanentlyClosed'
             => nInvoked'["close"] = (IF closeHandler # "null" THEN 1 ELSE 0)]_vars
    /\ [][permanentlyClosed => nInvoked'["close"] = nInvoked["close"]]_vars
    /\ [](~permanentlyClosed => nInvoked["close"] = 0)
    /\ []("send returned" \notin afterClose)
    /\ [](permanentlyClosed =>
             \A type \in {Str("a")}, message \in {Num(nextId), JSNull} :
                 send(Session, type, message).threw)

\* close() was called again after the first close, send was called after
\* it, and the close callback ran once.
C7_ClosedTwiceAndSent ==
    /\ permanentlyClosed
    /\ nInvoked["close"] = 1
    /\ afterClose = {"close", "send threw"}

\* C6 as stated: a timer set by a close event while the session was not
\* permanently closed eventually constructs a WebSocket, and the step that
\* constructs a WebSocket clears the timer that made it.
C6_AlwaysReconnects ==
    /\ \A timer \in 1..MaxSockets : \A n \in 1..(MaxSockets - 1) :
          (timer \in intervals /\ ~permanentlyClosed /\ Len(sockets) = n)
             ~> (Len(sockets) > n)
    /\ [][Len(sockets') > Len(sockets)
             => \E timer \in intervals : intervals' = intervals \ {timer}]_vars

\* C6, amended: a timer set by a close event (the session was not permanently
\* closed) eventually constructs a WebSocket, unless the session is closed
\* for good first; the step that constructs a WebSocket clears the timer
\* that made it, so that timer never fires again.  The bound on the number
\* of WebSockets stands for constructions that fail: nothing is claimed of
\* a timer set when the bound is reached.
C6_ReconnectsThenStops ==
    /\ \A timer \in 1..MaxSockets : \A n \in 1..(MaxSockets - 1) :
          (timer \in intervals /\ ~permanentlyClosed /\ Len(sockets) = n)
             ~> (timer \notin intervals /\ (Len(sockets) > n \/ permanentlyClosed))
    /\ [][Len(sockets') > Len(sockets)
             => \E timer \in intervals : intervals' = intervals \ {timer}]_vars
    /\ [][\A timer \in 1..MaxSockets :
             timer \notin intervals /\ timer \in intervals'
                => timer \in SocketIds /\ sockets[timer].readyState # CLOSED]_vars

\* The timer set by the first WebSocket's close event has constructed the
\* second WebSocket and is cleared.
C6_TimerConstructed ==
    /\ Len(sockets) = 2
    /\ ~permanentlyClosed
    /\ intervals = {}

\* ---- the server's connection
\* C4: once the connection is closed, whatever closed it, neither the
\* connection handler nor a message callback is invoked: every invocation
\* found the connection not closed, the frames that follow a closing
\* callback's frame in the same chunk included.
C4_NoInvocationOnceClosed ==
    /\ \A i \in DOMAIN dispatched : ~dispatched[i].closed
    /\ \A i \in DOMAIN startCalls : ~startCalls[i].closed

\* The application closed the connection in a callback while a whole frame
\* followed in the chunk, with the callback for its message registered.
C4_ClosedInCallbackMidChunk ==
    /\ closed /\ closedWith.cause = "application"
    /\ followed
    /\ serverMessageHandlers["a"] # "undefined"

\* The texts written to the socket: sendMessage writes the first byte, the
\* length and the text.
TextsWritten == {i \in DOMAIN written : i % 3 = 0}

\* C8: whatever calls of close(true) and close(false) are made, the close
\* callback registered when the first of them came is invoked once and no
\* other ever; the close envelope is written once if that first call was
\* close(true) and never otherwise; nothing is written once the connection
\* is marked closed.
C8_ClosesOnce ==
    /\ closed <=> closeCalls > 0
    /\ closeCallbacks = IF closed /\ closedWith.handler # "null" THEN 1 ELSE 0
    /\ Cardinality({i \in TextsWritten : written[i] = stringifyEnvelope(CloseEnvelope)})
          = IF closed /\ closedWith.need THEN 1 ELSE 0
    /\ closed => Len(written) = closedWith.written

\* The socket's close event came first, with a close callback registered,
\* and the application called close afterwards.
C8_EndedThenClosedAgain ==
    /\ closeCalls = 2
    /\ closedWith.cause = "tcp" /\ closedWith.handler # "null"
    /\ closeCallbacks = 1

\* The value the connection handler is to receive for an envelope.
StartArgument(envelope) ==
    IF envelope.type = Str("connect") THEN JSNull ELSE envelope.reconnectData

\* A chunk that is exactly one frame arrives at a started connection that
\* holds no unprocessed bytes, and the frame's text is a connect or
\* reconnect envelope.
LaterStartArrives ==
    /\ started /\ dataReceived = <<>>
    /\ wire = <<>> /\ wire' = <<>>
    /\ nFrames' = nFrames + 1
    /\ Len(startEnvelopes') = Len(startEnvelopes) + 1

\* C9: the connection handler is invoked at most once, for the first
\* connect or reconnect envelope the connection reads, with null for a
\* connect envelope and the envelope's reconnectData for a reconnect
\* envelope; a later connect or reconnect envelope invokes nothing and
\* changes nothing of the connection.
C9_StartsOnce ==
    /\ [](/\ Len(startCalls) = IF startEnvelopes = <<>> THEN 0 ELSE 1
          /\ started <=> startEnvelopes # <<>>
          /\ startCalls # <<>> => startCalls[1].arg = StartArgument(startEnvelopes[1]))
    /\ [][LaterStartArrives =>
            UNCHANGED <<started, closed, serverCloseHandler, serverMessageHandlers,
                        dataReceived, payloadReceived, written, startCalls,
                        dispatched, closeCallbacks, closeCalls>>]_vars

\* A reconnect envelope started the connection, and a second connect or
\* reconnect envelope was read after it.
C9_SecondStartRead ==
    /\ Len(startEnvelopes) >= 2
    /\ startEnvelopes[1].type = Str("reconnect")
    /\ Len(startCalls) = 1

\* ---- the client and the server's connection
\* What the claim says the connection handler receives.
Promised == IF returned.registered /\ returned.value # Undefined
            THEN returned.value ELSE JSNull

\* C10 as stated: after a reconnect, the connection handler receives the
\* value the reconnect callback returned, or null when no callback is
\* registered or it returned undefined.
C10_HandlerReceivesReturned ==
    (returned.reconnected /\ startCalls # <<>>) => startCalls[1].arg = Promised

\* C10 amended: the connection handler receives what JSON.parse reads from
\* the JSON.stringify text of that value.
C10_HandlerReceivesRoundTrip ==
    (returned.reconnected /\ startCalls # <<>>) =>
        startCalls[1].arg =
            parse(stringifyEnvelope(ReconnectEnvelope(Promised))).obj.reconnectData

\* The reconnect callback returned "ctx-42" and the connection handler of
\* the new connection was invoked.
C10_ContextArrived ==
    /\ returned.reconnected /\ returned.registered
    /\ returned.value = Str("ctx-42")
    /\ startCalls # <<>>

\* ---- use after close
\* C11: once a session is permanently closed, no call changes a registered
\* handler: the client's message, disconnect, reconnect and close handlers
\* stay as they are while permanentlyClosed holds, and the server's message
\* and close handlers stay as they are while closed holds.
C11_RegistrationRejectedOnceClosed ==
    /\ [][permanentlyClosed =>
            UNCHANGED <<messageHandlers, disconnectHandler, reconnectHandler,
                        closeHandler>>]_vars
    /\ [][closed => UNCHANGED <<serverMessageHandlers, serverCloseHandler>>]_vars

\* The three client methods that do check: on a permanently closed session
\* receive, disconnect and reconnect throw and change nothing.
C11_CheckedRegistrationsThrow ==
    permanentlyClosed =>
        /\ \A handler \in HandlerArgs :
              /\ receive(Session, Str("a"), handler) = Throw(Session)
              /\ disconnect(Session, handler) = Throw(Session)
              /\ reconnect(Session, handler) = Throw(Session)

\* ---- the frame decoder
\* The connection once all the bytes still under way have arrived in one
\* chunk.
Final(app) == onData(Connection, wire, app)

\* The connection once the first n of them have arrived in one chunk and
\* the rest in a second; an exception that leaves the data handler ends
\* the process.
Cut(n, app) ==
    LET first == onData(Connection, SubSeq(wire, 1, n), app)
    IN IF first.threw THEN first
       ELSE onData(first, SubSeq(wire, n + 1, Len(wire)), app)

\* What a delivery ends in: the connection's fields and the calls made.
\* Whether a whole frame followed in the chunk that closed the connection
\* is a fact about the chunk.
Outcome(c) == [c EXCEPT !.followed = FALSE]

\* C12: cutting the bytes under way at any offset changes nothing: their
\* arrival in two chunks ends in the same calls, in the same order and
\* with the same arguments, and in the same connection state as their
\* arrival in one chunk.  Every stream of SpecChunks starts wholly under
\* way and every state after a chunk is a state of SpecChunks, so each way
\* of cutting a stream into chunks ends as its delivery in one chunk does.
C12_ChunkingIsInvisible ==
    ~uncaught =>
       \A app \in ChunkApps : \A n \in 1..(Len(wire) - 1) :
          Outcome(Cut(n, app)) = Outcome(Final(app))

\* Apart from the buffer an exception leaves behind, C12 holds: either both
\* deliveries end by an exception leaving the data handler, after the same
\* calls, or neither does and they end in the same state.
C12_InvisibleUnlessThrown ==
    ~uncaught =>
       \A app \in ChunkApps : \A n \in 1..(Len(wire) - 1) :
          Outcome([Cut(n, app) EXCEPT !.dataReceived = IF Cut(n, app).threw THEN <<>> ELSE @])
            = Outcome([Final(app) EXCEPT !.dataReceived = IF Final(app).threw THEN <<>> ELSE @])

\* ---- the frame encoder
\* What was written is one frame that the decoder reads back: a final,
\* unmasked text frame whose length field is the length of the text that
\* follows it, and whose payload is that text.
Decodes(buffers) ==
    /\ Len(buffers) = 3
    /\ LET d == flatten(buffers) IN
         /\ finBit(d) /\ opcodeOf(d) = 1 /\ ~maskBit(d)
         /\ payloadLengthOf(d) = Len(buffers[3])
         /\ frameEndOf(d) = Len(d)
         /\ SubSeq(d, afterKey(d) + 1, frameEndOf(d)) = buffers[3]

\* C13: for a text of any length, what the encoder writes is one frame
\* whose length field equals the number of payload bytes that follow, and
\* which the decoder reads back as that text.
C13_HeaderCarriesLength == written # <<>> => Decodes(written)

\* Every frame that was written to its end decodes: the texts of fewer
\* than 65536 characters.
C13_WholeFramesDecode == Len(written) >= 3 => Decodes(written)

\* ---- text messages
\* C14: whatever text a complete message carries, the data handler ends by
\* dispatching it, ignoring it or closing the connection, and no exception
\* of its own leaves it: an exception leaves a handler of the socket only
\* when the application's close callback threw it.
C14_NoErrorLeavesDataHandler == uncaught => closeCallbacks = 1

\* ---- rejected calls
\* What a call of a session method can change: the outgoing queue, the
\* handlers, the flags, the WebSockets with what was passed to their send,
\* the timers; on the server the handlers, the flags, the buffers and what
\* was written to the socket.
ClientFields(s) ==
    <<s.outgoingQueue, s.messageHandlers, s.disconnectHandler, s.reconnectHandler,
      s.closeHandler, s.permanentlyClosed, s.temporarilyDisconnected, s.websocket,
      s.sockets, s.intervals>>
ServerFields(c) ==
    <<c.messageHandlers, c.closeHandler, c.started, c.closed, c.dataReceived,
      c.payloadReceived, c.written>>

\* The arguments of the calls: valid ones and invalid ones.
CallTypes    == {Str("a"), Num(0), Undefined}
CallMessages == {Num(0), JSNull, Undefined, JSFunction}
CallHandlers == HandlerArgs \cup {"undefined"}

\* The call is rejected without effect if it has to be, and has no effect
\* whenever it throws.
FailsFast(must, before, after, fields(_)) ==
    /\ must => after.threw
    /\ after.threw => fields(after) = fields(before)

\* C15: in every state, a call of a session method with an invalid
\* argument, or of a checking method on a permanently closed session,
\* throws, and a call that throws has changed nothing of the queue, the
\* handlers, the flags and what was handed to the transport.
C15_RejectedCallChangesNothing ==
    /\ \A type \in CallTypes, message \in CallMessages :
          /\ FailsFast(type.js # "string" \/ ~jsonConvertible(message) \/ permanentlyClosed,
                       Session, send(Session, type, message), ClientFields)
          /\ FailsFast(type.js # "string" \/ ~jsonConvertible(message) \/ closed,
                       Connection, serverSend(Connection, type, message), ServerFields)
    /\ \A type \in CallTypes, handler \in CallHandlers :
          /\ FailsFast(type.js # "string" \/ handler \in {"number", "undefined"}
                          \/ permanentlyClosed,
                       Session, receive(Session, type, handler), ClientFields)
          /\ FailsFast(type.js # "string" \/ handler \in {"number", "undefined"},
                       Connection, serverReceive(Connection, type, handler), ServerFields)
    /\ \A handler \in CallHandlers :
          /\ FailsFast(handler \in {"number", "undefined"} \/ permanentlyClosed,
                       Session, disconnect(Session, handler), ClientFields)
          /\ FailsFast(handler \in {"number", "undefined"} \/ permanentlyClosed,
                       Session, reconnect(Session, handler), ClientFields)
    /\ \A app \in Apps :
          FailsFast(TRUE, Session, closeMethod(Session, "number", app), ClientFields)
    /\ \A app \in ServerApps :
          FailsFast(TRUE, Connection, serverCloseMethod(Connection, "number", app),
                    ServerFields)

\* send was called on the client's session after it was closed, with
\* envelopes handed to WebSockets before, and the server's connection is
\* closed with its close envelope written.
C15_CalledAfterClose ==
    /\ "send threw" \in afterClose
    /\ \E t \in SocketIds : sockets[t].sent # <<>>
    /\ closed /\ written # <<>>

\* ---- message handlers
\* C16: every function the connection calls for a message envelope is a
\* function the application registered with receive; an envelope whose
\* type has no registered handler calls nothing.
C16_OnlyRegisteredHandlersRun ==
    \A i \in DOMAIN dispatched : dispatched[i].fn \in Functions

\* A chunk that is exactly one frame, the message envelope of type "a",
\* arrives at a started, open connection that holds no unprocessed bytes.
MessageArrives ==
    /\ started /\ ~closed /\ ~uncaught
    /\ dataReceived = <<>> /\ payloadReceived = <<>>
    /\ wire = <<>> /\ wire' = <<>>
    /\ nFrames' = nFrames + 1
    /\ stream'[Len(stream')] = TextFrame(stringifyEnvelope(MessageEnvelope(Str("a"), Num(0))))

\* For a type the application does register handlers for, the claim holds:
\* the envelope calls the handler registered last, once, with the
\* envelope's message, and calls nothing if there is none or the last
\* registration passed null.
C16_RegisteredHandlerRunsOnce ==
    [][MessageArrives =>
          dispatched' = IF serverMessageHandlers["a"] # "undefined"
                        THEN Append(dispatched, [fn |-> serverMessageHandlers["a"],
                                                 arg |-> Num(0), closed |-> FALSE])
                        ELSE dispatched]_vars

\* ---- fragments and opcodes
\* The bytes of the stream that have arrived.
Arrived == Len(flatten(stream)) - Len(wire)

\* C17: a connect envelope written as two frames, a text frame with FIN=0
\* and a continuation frame with FIN=1, calls nothing before the second
\* frame has arrived and, once it has, has called the connection handler
\* once, with null.
C17_FragmentedMessageDispatchedOnce ==
    stream = <<FirstFragment(stringifyEnvelope(ConnectEnvelope)),
               LastFragment(stringifyEnvelope(ConnectEnvelope))>>
       => /\ wire # <<>> => startCalls = <<>>
          /\ wire = <<>> => /\ Len(startCalls) = 1
                            /\ startCalls[1].arg = JSNull

\* C18: once a whole frame with an opcode other than 0, 1 and 8 (a ping)
\* has arrived, the connection is closed.
C18_UnknownOpcodeTerminates ==
    (stream # <<>> /\ stream[1] = PingFrame /\ Arrived >= Len(PingFrame)) => closed

\* C19: an open connection never holds, after a run of the data handler, a
\* buffer whose first byte carries opcode 8: the run that finds that byte
\* at the head of the buffer closes the connection, with close(true) (the
\* close envelope is the last text written), whatever of the frame has
\* arrived, whatever partial message is accumulated and whatever bytes
\* follow; and a step taken once the connection is closed changes nothing
\* of it and calls nothing, whatever bytes arrive.
C19_CloseFrameClosesAtOnce ==
    /\ [](~closed => (dataReceived = <<>> \/ opcodeOf(dataReceived) # 8))
    /\ []((closed /\ closedWith.cause = "frame") =>
             /\ closedWith.need
             /\ dataReceived = <<>>
             /\ written # <<>>
             /\ written[Len(written)] = stringifyEnvelope(CloseEnvelope))
    /\ [][closed =>
            UNCHANGED <<started, closed, serverCloseHandler, serverMessageHandlers,
                        dataReceived, payloadReceived, written, startEnvelopes,
                        startCalls, dispatched, closeCallbacks, closeCalls,
                        closedWith, uncaught>>]_vars

\* The first byte of a close frame arrived behind the first fragment of a
\* message: the connection is closed with the partial message accumulated
\* and the rest of the close frame not yet arrived.
C19_ClosedOnFirstByte ==
    /\ closed /\ closedWith.cause = "frame"
    /\ stream = <<FirstFragment(stringifyEnvelope(ConnectEnvelope)), CloseFrame>>
    /\ payloadReceived # <<>>
    /\ Len(wire) = Len(CloseFrame) - 1

\* ---- the client's flush
\* The session as flushOutgoingQueue finds it when envelope was queued in
\* the current state.
Queued(envelope) == [Session EXCEPT !.outgoingQueue = Append(@, envelope)]
FlushedEnvelopes == {MessageEnvelope(Str("a"), Num(nextId)), ReconnectEnvelope(JSNull)}

\* What flushOutgoingQueue hands to the current WebSocket: nothing.
NothingTransmitted(s) == flushOutgoingQueue(s).sockets = s.sockets
\* ... every queued envelope's text, in the order of the queue.
AllTransmitted(s) ==
    flushOutgoingQueue(s).sockets =
        [s.sockets EXCEPT ![s.websocket].sent =
            @ \o [i \in 1..Len(s.outgoingQueue) |-> stringifyEnvelope(s.outgoingQueue[i])]]

\* The session is in the OPEN state: neither permanently closed nor
\* temporarily disconnected, and its WebSocket is open.
IsOpen(s) ==
    ~s.permanentlyClosed /\ ~s.temporarilyDisconnected /\ readyState(s) = OPEN

C21_ClosedSessionHoldsNothing ==
    permanentlyClosed =>
        /\ outgoingQueue = <<>>
        /\ \A type \in DOMAIN messageHandlers : messageHandlers[type] = "undefined"

\* C22: a closed server connection has both of its buffers empty.
C22_ClosedConnectionHoldsNothing ==
    closed => (dataReceived = <<>> /\ payloadReceived = <<>>)

\* The buffer of received bytes is empty on every closed connection.
C22_DataReleased == closed => dataReceived = <<>>

\* ---- the length written in 64 bits
\* The four 16-bit digits, most significant first, of the 8 bytes which
\* follow the length code, and those of a number.
Words16(d) ==
    <<readUInt16BE(d, 2), readUInt16BE(d, 4), readUInt16BE(d, 6), readUInt16BE(d, 8)>>
Digits16(n) ==
    <<((n \div 65536) \div 65536) \div 65536, ((n \div 65536) \div 65536) % 65536,
      (n \div 65536) % 65536, n % 65536>>
Holds64BitHeader(d) == Len(d) >= 10 /\ lengthCode(d) = 127

\* C23: with the length code 127, the payload length the decoder uses is
\* the unsigned 64-bit big-endian value of the 8 bytes which follow, that
\* is high32 * 2^32 + low32.
C23_LengthIsUnsigned64 ==
    Holds64BitHeader(dataReceived) =>
        /\ payloadLengthOf(dataReceived) >= 0
        /\ Digits16(payloadLengthOf(dataReceived)) = Words16(dataReceived)

\* With a high word of zero the decoder's length is the 64-bit value.
C23_LengthWhenHighWordZero ==
    (Holds64BitHeader(dataReceived) /\ readUInt32BE(dataReceived, 2) = 0) =>
        /\ payloadLengthOf(dataReceived) >= 0
        /\ Digits16(payloadLengthOf(dataReceived)) = Words16(dataReceived)

\* With a high word below 2^31 the decoder's length is the sum of the
\* two words.
C23_LengthIsSumOfWords ==
    Holds64BitHeader(dataReceived) =>
        payloadLengthOf(dataReceived)
            = readUInt32BE(dataReceived, 2) + readUInt32BE(dataReceived, 6)

\* ---- the envelope which leads on a WebSocket
Lead(t) == IF t = 1 THEN Str("connect") ELSE Str("reconnect")

\* C24: on every WebSocket that was handed anything, the first envelope is
\* connect on the first WebSocket and reconnect on a later one, so no
\* message envelope comes before it.
C24_LeadEnvelopeFirst ==
    \A t \in SocketIds :
        Transmitted(t) # <<>> => Transmitted(t)[1].type = Lead(t)

\* The first WebSocket is handed the connect envelope before anything
\* else.
C24_ConnectFirst ==
    (1 \in SocketIds /\ Transmitted(1) # <<>>) => Transmitted(1)[1].type = Lead(1)

\* On a later WebSocket only messages sent by the reconnect callback, or
\* after a reconnect callback whose return value was refused, come before
\* or without the reconnect envelope.
C24_LeadOrMessage ==
    \A t \in SocketIds : \A i \in 1..Len(Transmitted(t)) :
        Transmitted(t)[i].type \in {Lead(t), Str("message")}

\* ---- disconnect and reconnect notifications
\* The session with the invocations of the disconnect and reconnect
\* callbacks counted from here on.
Notifications == {"disconnect", "reconnect"}
Counting == [Session EXCEPT !.nInvoked = [k \in Notifications \cup {"close"} |-> 0]]
NotifyApps == {app \in Apps : app.returns \in {Undefined, JSFunction}}
QuietApps == {app \in Apps : app.returns = Undefined}

\* What a handler run r did: how often it invoked each of the two
\* callbacks, and the flag it left.
Notified(r, disconnects, reconnects, flag) ==
    /\ r.nInvoked["disconnect"] = disconnects
    /\ r.nInvoked["reconnect"] = reconnects
    /\ r.temporarilyDisconnected = flag
Quiet(r) == Notified(r, 0, 0, temporarilyDisconnected)

\* The close event of WebSocket t: the disconnect callback, if there is
\* one, is invoked exactly when the session is neither closed nor in an
\* outage already, and the outage begins.
CloseEventNotifies(t) ==
    \A app \in QuietApps :
        LET r == onSocketClose([Counting EXCEPT !.sockets[t].readyState = CLOSED], t, app)
        IN IF permanentlyClosed THEN Quiet(r)
           ELSE Notified(r, IF ~temporarilyDisconnected /\ disconnectHandler # "null"
                            THEN 1 ELSE 0, 0, TRUE)

\* The open event of WebSocket t: the reconnect callback, if there is one,
\* is invoked exactly when the session is in an outage, and the outage
\* ends.
OpenEventNotifies(t) ==
    \A app \in NotifyApps :
        LET r == onSocketOpen([Counting EXCEPT !.sockets[t].readyState = OPEN,
                                                !.sockets[t].opened = TRUE], app)
        IN Notified(r, 0, IF temporarilyDisconnected /\ reconnectHandler # "null"
                          THEN 1 ELSE 0, FALSE)

\* No other event and no call of the application notifies or begins or
\* ends an outage.
OthersAreQuiet ==
    /\ \A text \in IncomingTexts, app \in QuietApps :
          Quiet(onSocketMessage(Counting, text, app))
    /\ \A timer \in intervals, constructs \in BOOLEAN :
          Quiet(reconnectingInterval(Counting, timer, constructs))
    /\ Quiet(send(Counting, Str("a"), Num(nextId)))
    /\ \A handler \in HandlerArgs :
          /\ Quiet(receive(Counting, Str("a"), handler))
          /\ Quiet(disconnect(Counting, handler))
          /\ Quiet(reconnect(Counting, handler))
          /\ \A app \in {a \in QuietApps : a.primary = "noop" /\ a.close = "noop"} :
                Quiet(closeMethod(Counting, handler, app))
    /\ \A app \in {a \in QuietApps : a.primary = "noop"} :
          Quiet(closeMethod(Counting, "undefined", app))

\* C25: disconnect and reconnect notifications alternate, starting with a
\* disconnect.  An outage (temporarilyDisconnected) begins only at a close
\* event outside an outage, which invokes the disconnect callback once;
\* a close event during the outage invokes nothing; the outage ends only
\* at an open event, which invokes the reconnect callback once; and an
\* open event outside an outage invokes nothing.
C25_NotificationsAlternate ==
    /\ \A t \in SocketIds : sockets[t].readyState # CLOSED => CloseEventNotifies(t)
    /\ \A t \in SocketIds : sockets[t].readyState = CONNECTING => OpenEventNotifies(t)
    /\ OthersAreQuiet

\* The second WebSocket, a reconnect attempt, failed during the outage, and
\* a disconnect callback is registered.
C25_AttemptFailedDuringOutage ==
    /\ temporarilyDisconnected /\ ~permanentlyClosed
    /\ disconnectHandler # "null"
    /\ 2 \in intervals
    /\ ~sockets[2].opened

\* The session begins outside an outage, and the flag changes only in
\* the step of a close event (to TRUE) or of an open event (to FALSE).
C25_OutageBeginsAndEndsAtEvents ==
    [][temporarilyDisconnected' # temporarilyDisconnected =>
         \E t \in SocketIds :
            IF temporarilyDisconnected
            THEN sockets[t].readyState = CONNECTING /\ sockets'[t].opened
            ELSE sockets[t].readyState # CLOSED /\ sockets'[t].readyState = CLOSED]_vars

\* ---- reconnect timers and live WebSockets
Live == {t \in SocketIds : sockets[t].readyState # CLOSED}

\* C26: at most one reconnect timer is active, none is active while the
\* current WebSocket is connecting or open, and at most one WebSocket is
\* not closed.
C26_OneTimerOneTransport ==
    /\ Cardinality(intervals) <= 1
    /\ intervals # {} => readyState(Session) \notin {CONNECTING, OPEN}
    /\ Cardinality(Live) <= 1

\* A second timer, set by the close event of a WebSocket the first timer
\* constructed, is active.
C26_SecondTimerActive == intervals = {2} /\ Len(sockets) = 2

\* A timer is active only while every WebSocket is closed, and the live
\* WebSocket is the current one.
C26_TimerOnlyWhenAllClosed ==
    /\ intervals # {} => Live = {}
    /\ Live \subseteq {websocket}

====
